---- MODULE Spec2Model ----
(***************************************************************************)
(* Model of the FamilyTree widget (fam-tree.js): record ingestion, parent  *)
(* resolution, tree assembly, root selection, breadcrumb navigation and    *)
(* the browser-history round trip.                                         *)
(*                                                                         *)
(* JavaScript strings are sequences of one-character strings, so that      *)
(* String.prototype.includes, regular-expression prefixes and parseFloat   *)
(* can be computed.  JSON scalars (AnchorId, ParentId, Datum) keep their   *)
(* JSON type: absent, number or string.  Numbers are integers.             *)
(***************************************************************************)
EXTENDS Integers, Sequences, FiniteSets

VARIABLES
    urlPath,      \* window.location 'path' parameter at page load (NULL: none)
    data,         \* the record collection the source document holds
    pc,           \* position of init(): "fetch", "json", "done", "failed"
    errorText,    \* errorEl.textContent: "" or the kind of error shown
    persons,      \* this.persons: the Map, as the sequence of its values in key order
    rootPerson,   \* this.rootPerson: id of a person or NULL
    currentRoot,  \* this.currentRoot: id of a person or NULL
    view,         \* content of .fam-tree-wrapper: "blank","noRoot","tree","broken"
    history,      \* window.history: the sequence of entry states
    hpos,         \* index of the current entry of window.history
    searchTimeout, \* the query of the pending debounce timer of setupSearch, or NULL
    results,      \* the entries performSearch last put into the results container
    resultsShown, \* the results container has the class 'show'
    lastInput,    \* the trimmed value of the latest input event, or NULL (history)
    searched,     \* a search run earlier, as {<<query, result list, phase>>}, or {}
                  \* (history; phase "first", then "other" once another query was
                  \* searched, then "again" once the query was searched again)
    selected,     \* a result was clicked since the latest input event (history)
    fn,           \* the formatting function last called in isolation, or "none"
    arg,          \* its argument
    out           \* its return value

searchVars == <<searchTimeout, results, resultsShown, lastInput, searched, selected>>

callVars == <<fn, arg, out>>

vars == <<urlPath, data, pc, errorText, persons, rootPerson, currentRoot, view, history, hpos,
          searchTimeout, results, resultsShown, lastInput, searched, selected, fn, arg, out>>

-----------------------------------------------------------------------------
(* Bounds *)

MaxRecords == 3
MaxHistory == 3

-----------------------------------------------------------------------------
(* JavaScript values *)

\* null / undefined where a string or an object reference is expected
NULL == <<"null">>

Digit(n) == CASE n = 0 -> "0" [] n = 1 -> "1" [] n = 2 -> "2" [] n = 3 -> "3"
              [] n = 4 -> "4" [] n = 5 -> "5" [] n = 6 -> "6" [] n = 7 -> "7"
              [] n = 8 -> "8" [] n = 9 -> "9"

IsDigit(c) == c \in {"0", "1", "2", "3", "4", "5", "6", "7", "8", "9"}

DigitVal(c) == CHOOSE n \in 0..9 : Digit(n) = c

\* String(n) for an integer n
RECURSIVE NatStr(_)
NatStr(n) == IF n < 10 THEN <<Digit(n)>> ELSE NatStr(n \div 10) \o <<Digit(n % 10)>>

IntStr(n) == IF n < 0 THEN <<"-">> \o NatStr(0 - n) ELSE NatStr(n)

\* JSON scalars
Absent == [k |-> "absent", n |-> 0, s |-> <<>>]
Num(n) == [k |-> "num", n |-> n, s |-> <<>>]
Str(s) == [k |-> "str", n |-> 0, s |-> s]

\* ToBoolean of a JSON scalar
Truthy(v) == CASE v.k = "absent" -> FALSE
               [] v.k = "num" -> v.n # 0
               [] v.k = "str" -> v.s # <<>>

\* String(v) of a JSON scalar that is present
JsString(v) == IF v.k = "num" THEN IntStr(v.n) ELSE v.s

\* s.includes(t)
Includes(s, t) ==
    \E i \in 0..(Len(s) - Len(t)) : SubSeq(s, i + 1, i + Len(t)) = t

\* the length of the run of digits s starts with, from position i
RECURSIVE DigitRun(_, _)
DigitRun(s, i) ==
    IF i <= Len(s) /\ IsDigit(s[i]) THEN 1 + DigitRun(s, i + 1) ELSE 0

\* the number written by the digits s[i..j]
RECURSIVE DigitsVal(_, _, _)
DigitsVal(s, i, j) ==
    IF j < i THEN 0 ELSE 10 * DigitsVal(s, i, j - 1) + DigitVal(s[j])

NaN == [nan |-> TRUE, n |-> 0]
Number(n) == [nan |-> FALSE, n |-> n]

\* parseFloat(v): an optional sign and the leading run of digits
ParseFloat(v) ==
    IF v.k = "num" THEN Number(v.n)
    ELSE LET s == v.s
             neg == Len(s) > 0 /\ s[1] = "-"
             from == IF neg THEN 2 ELSE 1
             run == DigitRun(s, from)
         IN IF run = 0 THEN NaN
            ELSE Number((IF neg THEN -1 ELSE 1) * DigitsVal(s, from, from + run - 1))

\* String(n).padStart(2, '0')
Pad2(n) == IF n < 10 THEN <<"0">> \o NatStr(n) ELSE NatStr(n)

\* Calendar date of the day `days` days after Dec 30, 1899 (local midnight,
\* whole days), as new Date(excelEpoch.getTime() + daysToAdd * 86400000) gives it
DateAfterEpoch(days) ==
    LET z == days - 25569 + 719468
        era == z \div 146097
        doe == z - era * 146097
        yoe == (doe - doe \div 1460 + doe \div 36524 - doe \div 146096) \div 365
        doy == doe - (365 * yoe + yoe \div 4 - yoe \div 100)
        mp == (5 * doy + 2) \div 153
        d == doy - (153 * mp + 2) \div 5 + 1
        m == IF mp < 10 THEN mp + 3 ELSE mp - 9
        y == yoe + era * 400 + (IF m <= 2 THEN 1 ELSE 0)
    IN [year |-> y, month |-> m, day |-> d]

YearLimit == 10000

\* fault: every positive number is taken as a serial day number
convertExcelDateSerials(excelDate) ==
    IF ~Truthy(excelDate) \/ excelDate = Str(<<"0">>) THEN <<>>
    ELSE LET numDate == ParseFloat(excelDate)
         IN IF numDate.nan \/ numDate.n <= 0 THEN JsString(excelDate)
            ELSE LET daysToAdd == IF numDate.n >= 60 THEN numDate.n ELSE numDate.n + 1
                     date == DateAfterEpoch(daysToAdd)
                 IN IntStr(date.year) \o <<"-">> \o Pad2(date.month)
                        \o <<"-">> \o Pad2(date.day)

convertExcelDate(excelDate) ==
    IF ~Truthy(excelDate) \/ excelDate = Str(<<"0">>) THEN <<>>
    ELSE LET numDate == ParseFloat(excelDate)
         IN IF numDate.nan \/ numDate.n <= 0 THEN JsString(excelDate)
            ELSE IF numDate.n < YearLimit THEN IntStr(numDate.n)
            ELSE LET daysToAdd == IF numDate.n >= 60 THEN numDate.n ELSE numDate.n + 1
                     date == DateAfterEpoch(daysToAdd)
                 IN IntStr(date.year) \o <<"-">> \o Pad2(date.month)
                        \o <<"-">> \o Pad2(date.day)

-----------------------------------------------------------------------------
(* The registry: this.persons, a Map kept as the sequence of its values in  *)
(* insertion order.  Object references (children, rootPerson, currentRoot)  *)
(* are the ids of the referenced persons, which are the keys of the Map.    *)

\* the first of the indices hits (those of the elements that satisfy the
\* test of a find), 0 when there is none
FindIndex(hits) ==
    IF hits = {} THEN 0 ELSE CHOOSE i \in hits : \A j \in hits : i <= j

\* index of the value stored under key id, 0 when the Map has no such key
IndexOfId(ps, id) == FindIndex({fi \in 1..Len(ps) : ps[fi].id = id})

Has(ps, id) == IndexOfId(ps, id) # 0

Get(ps, id) == ps[IndexOfId(ps, id)]

Ids(ps) == {ps[i].id : i \in 1..Len(ps)}

\* Map.prototype.set: a new key is appended, an existing key keeps its place
MapSet(ps, id, obj) ==
    IF Has(ps, id) THEN [ps EXCEPT ![IndexOfId(ps, id)] = obj] ELSE Append(ps, obj)

NewPerson(id, name) ==
    [id |-> id, name |-> name, events |-> <<>>, children |-> <<>>, parentId |-> NULL]

\* p.name === hint || p.name.includes(hint) || hint.includes(p.name)
NameMatches(p, hint) ==
    p.name = hint \/ Includes(p.name, hint) \/ Includes(hint, p.name)

\* Array.from(this.persons.values()).find(p => name matches hint): index or 0
FindByHint(ps, hint) == FindIndex({fi \in 1..Len(ps) : NameMatches(ps[fi], hint)})

\* the event a record contributes
EventOf(record) ==
    [type |-> record.Ereignis,
     date |-> convertExcelDate(record.Datum),
     partner |-> record.Partner,
     partnerBirthDeath |-> record.PartnerGeburtTod,
     parent1 |-> record.Eltern1,
     parent2 |-> record.Eltern2]

\* the parentId a record gives the person, old when it gives none
ParentOfRecord(ps, record, old) ==
    LET by1 == FindByHint(ps, record.Eltern1)
        by2 == FindByHint(ps, record.Eltern2)
    IN IF Truthy(record.ParentId) THEN JsString(record.ParentId)
       ELSE IF record.Eltern1 # <<>>
            THEN IF by1 # 0 THEN ps[by1].id
                 ELSE IF record.Eltern2 # <<>> /\ by2 # 0 THEN ps[by2].id ELSE old
       ELSE IF record.Eltern2 # <<>> /\ by2 # 0 THEN ps[by2].id
       ELSE old

\* first pass of buildTree: the body of this.data.forEach for one record
IngestRecord(ps, record) ==
    IF record.Person = <<>> THEN ps
    ELSE LET hasAnchor == Truthy(record.AnchorId)
             byName == FindIndex({fi \in 1..Len(ps) : ps[fi].name = record.Person})
             anchorId == IF hasAnchor THEN JsString(record.AnchorId)
                         ELSE IF byName # 0 THEN ps[byName].id
                         ELSE record.Person
             ps1 == IF hasAnchor
                    THEN IF Has(ps, anchorId) THEN ps
                         ELSE Append(ps, NewPerson(anchorId, record.Person))
                    ELSE IF byName # 0 THEN ps
                         ELSE MapSet(ps, anchorId, NewPerson(anchorId, record.Person))
             i == IndexOfId(ps1, anchorId)
             ps2 == [ps1 EXCEPT ![i].events = Append(@, EventOf(record))]
         IN [ps2 EXCEPT ![i].parentId = ParentOfRecord(ps2, record, @)]

\* an element of the record collection that is null: reading record.Person
\* throws a TypeError out of the forEach callback, and so out of buildTree
NullRecord == [null |-> TRUE]

IsNullRecord(record) == DOMAIN record = {"null"}

\* buildTree throws for this record collection
BuildThrows(records) == \E k \in 1..Len(records) : IsNullRecord(records[k])

\* the first pass from record k on; it ends at the record that throws, with
\* the persons of the records before it in the registry.  The registry a
\* record leaves is complete (its length is taken) before the next one is read.
RECURSIVE FirstPass(_, _, _)
FirstPass(ps, records, k) ==
    IF k > Len(records) \/ IsNullRecord(records[k]) THEN ps
    ELSE LET next == IngestRecord(ps, records[k])
         IN IF Len(next) > 0 THEN FirstPass(next, records, k + 1) ELSE next

\* fault: a person with a registered parentId is also attached by name hint
LinkPersonShared(ps, i) ==
    LET person == ps[i]
        w == FindIndex({fi \in 1..Len(person.events) : person.events[fi].parent1 # <<>> \/ person.events[fi].parent2 # <<>>})
        by1 == IF w # 0 /\ person.events[w].parent1 # <<>>
               THEN FindByHint(ps, person.events[w].parent1) ELSE 0
        by2 == IF w # 0 /\ person.events[w].parent2 # <<>>
               THEN FindByHint(ps, person.events[w].parent2) ELSE 0
        byName == IF by1 # 0 THEN by1 ELSE by2
        attached ==
            IF byName # 0
            THEN [[ps EXCEPT ![byName].children = Append(@, person.id)]
                      EXCEPT ![i].parentId = ps[byName].id]
            ELSE ps
        pi == IndexOfId(ps, person.parentId)
    IN IF person.parentId # NULL /\ pi # 0
       THEN [attached EXCEPT ![pi].children = Append(@, person.id)]
       ELSE attached

\* fault: a person attached by name hint keeps its old parentId
LinkPersonUnlinked(ps, i) ==
    LET person == ps[i]
        w == FindIndex({fi \in 1..Len(person.events) : person.events[fi].parent1 # <<>> \/ person.events[fi].parent2 # <<>>})
        by1 == IF w # 0 /\ person.events[w].parent1 # <<>>
               THEN FindByHint(ps, person.events[w].parent1) ELSE 0
        by2 == IF w # 0 /\ person.events[w].parent2 # <<>>
               THEN FindByHint(ps, person.events[w].parent2) ELSE 0
        byName == IF by1 # 0 THEN by1 ELSE by2
        attached ==
            IF byName # 0 /\ ~(\E c \in 1..Len(ps[byName].children) :
                                   ps[byName].children[c] = person.id)
            THEN [ps EXCEPT ![byName].children = Append(@, person.id)]
            ELSE ps
        pi == IndexOfId(ps, person.parentId)
    IN IF person.parentId # NULL
       THEN IF pi # 0 THEN [ps EXCEPT ![pi].children = Append(@, person.id)]
            ELSE attached
       ELSE attached

\* second pass of buildTree: the body of this.persons.forEach for person i
LinkPerson(ps, i) ==
    LET person == ps[i]
        w == FindIndex({fi \in 1..Len(person.events) : person.events[fi].parent1 # <<>> \/ person.events[fi].parent2 # <<>>})
        by1 == IF w # 0 /\ person.events[w].parent1 # <<>>
               THEN FindByHint(ps, person.events[w].parent1) ELSE 0
        by2 == IF w # 0 /\ person.events[w].parent2 # <<>>
               THEN FindByHint(ps, person.events[w].parent2) ELSE 0
        byName == IF by1 # 0 THEN by1 ELSE by2
        attached ==
            IF byName # 0 /\ ~(\E c \in 1..Len(ps[byName].children) :
                                   ps[byName].children[c] = person.id)
            THEN [[ps EXCEPT ![byName].children = Append(@, person.id)]
                      EXCEPT ![i].parentId = ps[byName].id]
            ELSE ps
        pi == IndexOfId(ps, person.parentId)
    IN IF person.parentId # NULL
       THEN IF pi # 0 THEN [ps EXCEPT ![pi].children = Append(@, person.id)]
            ELSE attached
       ELSE attached

RECURSIVE SecondPass(_, _)
SecondPass(ps, i) ==
    IF i > Len(ps) THEN ps ELSE SecondPass(LinkPerson(ps, i), i + 1)

\* getBirthDate: the year, or null
NoYear == [known |-> FALSE, year |-> 0]

getBirthDate(person) ==
    LET b == FindIndex({fi \in 1..Len(person.events) : person.events[fi].type = "Geburt"})
    IN IF b # 0 /\ person.events[b].date # <<>>
          /\ DigitRun(person.events[b].date, 1) >= 4
       THEN [known |-> TRUE, year |-> DigitsVal(person.events[b].date, 1, 4)]
       ELSE NoYear

\* !birth, for a value getBirthDate returned: null and 0 are falsy
Falsy(birth) == ~birth.known \/ birth.year = 0

\* the comparator of person.children.sort
CompareBirth(a, b) ==
    IF Falsy(getBirthDate(a)) THEN 1
    ELSE IF Falsy(getBirthDate(b)) THEN -1
    ELSE getBirthDate(a).year - getBirthDate(b).year

Permutations(seq) ==
    {q \in [1..Len(seq) -> {seq[i] : i \in 1..Len(seq)}] :
        \A i, j \in 1..Len(seq) : i # j => q[i] # q[j]}

\* Array.prototype.sort with the comparator above.  The sort is stable; the
\* comparator answers 1 both ways for two children without a birth year, and
\* the order the engine leaves such a pair in is its own choice.
SortOutcomes(ps, children) ==
    LET Cmp(x, y) == CompareBirth(Get(ps, x), Get(ps, y))
        Pos(x) == CHOOSE i \in 1..Len(children) : children[i] = x
    IN {q \in Permutations(children) :
          \A i, j \in 1..Len(q) : i < j =>
              /\ ~(Cmp(q[i], q[j]) > 0 /\ Cmp(q[j], q[i]) < 0)
              /\ (Cmp(q[i], q[j]) = 0 /\ Cmp(q[j], q[i]) = 0) => Pos(q[i]) < Pos(q[j])}

\* the registries the sorting loop can leave
SortedRegistries(ps) ==
    {[i \in 1..Len(ps) |-> [ps[i] EXCEPT !.children = f[i]]] :
        f \in {g \in [1..Len(ps) -> UNION {SortOutcomes(ps, ps[i].children) : i \in 1..Len(ps)}] :
                  \A i \in 1..Len(ps) : g[i] \in SortOutcomes(ps, ps[i].children)}}

\* the callback of personsWithNoParent.reduce
EarlierBorn(earliest, current) ==
    IF Falsy(getBirthDate(earliest)) THEN current
    ELSE IF Falsy(getBirthDate(current)) THEN earliest
    ELSE IF getBirthDate(earliest).year < getBirthDate(current).year THEN earliest
    ELSE current

RECURSIVE Reduce(_, _, _)
Reduce(seq, acc, k) ==
    IF k > Len(seq) THEN acc ELSE Reduce(seq, EarlierBorn(acc, seq[k]), k + 1)

\* fault: the root fallback skips the search for parentless persons
SelectRootFirst(ps) ==
    IF Has(ps, <<"0">>) /\ Get(ps, <<"0">>).parentId = NULL THEN <<"0">>
    ELSE IF Len(ps) > 0 THEN ps[1].id
    ELSE NULL

\* root selection of buildTree: the id of the root, NULL for an empty registry
SelectRoot(ps) ==
    LET personsWithNoParent == SelectSeq(ps, LAMBDA p : p.parentId = NULL)
    IN IF Has(ps, <<"0">>) /\ Get(ps, <<"0">>).parentId = NULL THEN <<"0">>
       ELSE IF Len(personsWithNoParent) > 0
            THEN Reduce(personsWithNoParent, personsWithNoParent[1], 2).id
       ELSE IF Len(ps) > 0 THEN ps[1].id
       ELSE NULL

\* the registries buildTree can leave for a record collection
BuildTree(records) == SortedRegistries(SecondPass(FirstPass(<<>>, records, 1), 1))

-----------------------------------------------------------------------------
(* Navigation *)

Range(seq) == {seq[i] : i \in 1..Len(seq)}

Reverse(seq) == [i \in 1..Len(seq) |-> seq[Len(seq) + 1 - i]]

\* iterations the model grants a while loop; done = FALSE means they ran out
WalkFuel(ps) == Len(ps) + 2

\* fault: the loop without its visited set
RECURSIVE ClimbNoVisited(_, _, _, _)
ClimbNoVisited(ps, current, path, fuel) ==
    IF current = NULL THEN [path |-> path, done |-> TRUE]
    ELSE IF fuel = 0 THEN [path |-> path, done |-> FALSE]
    ELSE LET parentId == Get(ps, current).parentId
         IN IF parentId # NULL /\ parentId # <<"0">> /\ parentId # <<>> /\ Has(ps, parentId)
            THEN ClimbNoVisited(ps, parentId, Append(path, current), fuel - 1)
            ELSE [path |-> Append(path, current), done |-> TRUE]

\* the while loop of getPathToRoot / getBreadcrumbPath / updateBreadcrumb:
\* the persons visited, in the order visited
RECURSIVE Climb(_, _, _, _)
Climb(ps, current, path, fuel) ==
    IF current = NULL \/ current \in Range(path) THEN [path |-> path, done |-> TRUE]
    ELSE IF fuel = 0 THEN [path |-> path, done |-> FALSE]
    ELSE LET parentId == Get(ps, current).parentId
         IN IF parentId # NULL /\ parentId # <<"0">> /\ parentId # <<>> /\ Has(ps, parentId)
            THEN Climb(ps, parentId, Append(path, current), fuel - 1)
            ELSE [path |-> Append(path, current), done |-> TRUE]

\* fault: the path is returned without adding the root
getPathToRootUnanchored(ps, root, person) ==
    Reverse(Climb(ps, person, <<>>, WalkFuel(ps)).path)

\* getPathToRoot(person): ids from the root to person.  Reading
\* this.rootPerson.id throws when there is no root; callers test root first.
getPathToRoot(ps, root, person) ==
    LET path == Climb(ps, person, <<>>, WalkFuel(ps)).path
    IN Reverse(IF Len(path) = 0 \/ path[Len(path)] # root THEN Append(path, root) ELSE path)

\* getBreadcrumbPath(person) and the path updateBreadcrumb builds: unshift
\* instead of push, no reverse
getBreadcrumbPath(ps, root, person) ==
    LET path == Reverse(Climb(ps, person, <<>>, WalkFuel(ps)).path)
    IN IF Len(path) = 0 \/ path[1] # root THEN <<root>> \o path ELSE path

\* path.map(p => p.name)
PathNames(ps, path) == [i \in 1..Len(path) |-> Get(ps, path[i]).name]

\* countDescendants(person) recurses through children without a visited set:
\* it returns iff no chain of children links from person comes back to a person
\* already on the chain; otherwise the call stack overflows (RangeError)
RECURSIVE Overflows(_, _, _)
Overflows(ps, id, chain) ==
    \/ id \in chain
    \/ \E c \in Range(Get(ps, id).children) : Overflows(ps, c, chain \cup {id})

countDescendantsThrows(ps, id) == Overflows(ps, id, {})

\* the state of .fam-tree-wrapper that render() leaves for a focus
Render(ps, root, focus) ==
    IF focus = NULL THEN "noRoot"
    ELSE IF root = NULL THEN "broken"
    ELSE IF \E id \in Range(getPathToRoot(ps, root, focus))
                        \cup Range(Get(ps, focus).children) :
               countDescendantsThrows(ps, id)
         THEN "broken"
    ELSE "tree"

\* fault: only the first name of the list is resolved
ResolveFirstName(ps, pathNames, k, currentPerson) ==
    LET i == FindIndex({fi \in 1..Len(ps) : ps[fi].name = pathNames[1]})
    IN IF Len(pathNames) > 0 /\ i # 0 THEN ps[i].id ELSE currentPerson

\* fault: a name that resolves to nobody discards the persons resolved so far
RECURSIVE ResolveNamesOrNothing(_, _, _, _)
ResolveNamesOrNothing(ps, pathNames, k, currentPerson) ==
    IF k > Len(pathNames) THEN currentPerson
    ELSE LET i == FindIndex({fi \in 1..Len(ps) : ps[fi].name = pathNames[k]})
         IN IF i # 0 THEN ResolveNamesOrNothing(ps, pathNames, k + 1, ps[i].id)
            ELSE NULL

\* the loop of the popstate handler and of loadFromURL: the person of the last
\* name resolved before the first name that resolves to nobody, NULL if none
RECURSIVE ResolveNames(_, _, _, _)
ResolveNames(ps, pathNames, k, currentPerson) ==
    IF k > Len(pathNames) THEN currentPerson
    ELSE LET i == FindIndex({fi \in 1..Len(ps) : ps[fi].name = pathNames[k]})
         IN IF i # 0 THEN ResolveNames(ps, pathNames, k + 1, ps[i].id)
            ELSE currentPerson

\* e.state of a history entry without state; a path parameter that is not set
NoState == <<>>

\* persons with a click handler that calls navigateToPerson: the breadcrumb
\* items but the last, the cards of a rendered tree, and, once setupSearch ran,
\* the results of a search (a query has at least 2 characters; a person is
\* found by its own name as the query)
Clickable ==
    IF currentRoot = NULL \/ rootPerson = NULL THEN {}
    ELSE LET crumbs == getBreadcrumbPath(persons, rootPerson, currentRoot)
         IN {crumbs[i] : i \in 1..(Len(crumbs) - 1)}
            \cup (IF view = "tree"
                  THEN Range(getPathToRoot(persons, rootPerson, currentRoot))
                           \cup Range(Get(persons, currentRoot).children)
                  ELSE {})
            \cup (IF pc = "done"
                  THEN {persons[i].id : i \in {j \in 1..Len(persons) : Len(persons[j].name) >= 2}}
                  ELSE {})

-----------------------------------------------------------------------------
(* Search *)

Lowercase == <<"a", "b", "c", "d", "e", "f", "g", "h", "i", "j", "k", "l", "m",
               "n", "o", "p", "q", "r", "s", "t", "u", "v", "w", "x", "y", "z">>

Uppercase == <<"A", "B", "C", "D", "E", "F", "G", "H", "I", "J", "K", "L", "M",
               "N", "O", "P", "Q", "R", "S", "T", "U", "V", "W", "X", "Y", "Z">>

ToLowerChar(c) ==
    IF \E i \in 1..26 : Uppercase[i] = c
    THEN Lowercase[CHOOSE i \in 1..26 : Uppercase[i] = c]
    ELSE c

\* s.toLowerCase()
toLowerCase(s) == [i \in 1..Len(s) |-> ToLowerChar(s[i])]

\* s.startsWith(t)
startsWith(s, t) == Len(t) <= Len(s) /\ SubSeq(s, 1, Len(t)) = t

\* s.trim()
RECURSIVE trim(_)
trim(s) ==
    IF Len(s) > 0 /\ s[1] = " " THEN trim(Tail(s))
    ELSE IF Len(s) > 0 /\ s[Len(s)] = " " THEN trim(SubSeq(s, 1, Len(s) - 1))
    ELSE s

\* the weight of a character in the collation of localeCompare: white space
\* before digits before letters, letters regardless of their case
CollationRank(c) ==
    IF c = " " THEN 0
    ELSE IF IsDigit(c) THEN 1 + DigitVal(c)
    ELSE IF \E i \in 1..26 : Lowercase[i] = ToLowerChar(c)
         THEN 10 + (CHOOSE i \in 1..26 : Lowercase[i] = ToLowerChar(c))
    ELSE 40

\* the first level of the collation: the strings by the weights of their characters
RECURSIVE ComparePrimary(_, _, _)
ComparePrimary(a, b, i) ==
    IF i > Len(a) /\ i > Len(b) THEN 0
    ELSE IF i > Len(a) THEN -1
    ELSE IF i > Len(b) THEN 1
    ELSE IF CollationRank(a[i]) < CollationRank(b[i]) THEN -1
    ELSE IF CollationRank(a[i]) > CollationRank(b[i]) THEN 1
    ELSE ComparePrimary(a, b, i + 1)

\* the case level, for strings equal on the first: lower case before upper case
RECURSIVE CompareCase(_, _, _)
CompareCase(a, b, i) ==
    IF i > Len(a) THEN 0
    ELSE IF a[i] = b[i] THEN CompareCase(a, b, i + 1)
    ELSE IF a[i] = ToLowerChar(a[i]) THEN -1
    ELSE 1

\* a.localeCompare(b)
localeCompare(a, b) ==
    IF ComparePrimary(a, b, 1) # 0 THEN ComparePrimary(a, b, 1) ELSE CompareCase(a, b, 1)

\* fault: the partner of any event counts as a spouse
MatchOfAnyEvent(person, queryLower) ==
    IF Includes(toLowerCase(person.name), queryLower)
    THEN <<[person |-> person.id, matchReason |-> "name", matchedSpouse |-> NULL]>>
    ELSE LET marriages == SelectSeq(person.events, LAMBDA e : e.partner # <<>>)
             hit == FindIndex({fi \in 1..Len(marriages) :
                                  Includes(toLowerCase(marriages[fi].partner), queryLower)})
         IN IF hit # 0
            THEN <<[person |-> person.id, matchReason |-> "spouse",
                    matchedSpouse |-> marriages[hit].partner]>>
            ELSE <<>>

\* the entry the scan of performSearch pushes for a person: none or one
MatchOf(person, queryLower) ==
    IF Includes(toLowerCase(person.name), queryLower)
    THEN <<[person |-> person.id, matchReason |-> "name", matchedSpouse |-> NULL]>>
    ELSE LET marriages == SelectSeq(person.events,
                                    LAMBDA e : e.type = "Heirat" /\ e.partner # <<>>)
             hit == FindIndex({fi \in 1..Len(marriages) :
                                  Includes(toLowerCase(marriages[fi].partner), queryLower)})
         IN IF hit # 0
            THEN <<[person |-> person.id, matchReason |-> "spouse",
                    matchedSpouse |-> marriages[hit].partner]>>
            ELSE <<>>

\* this.persons.forEach of performSearch, from person k on
RECURSIVE ScanMatches(_, _, _)
ScanMatches(ps, queryLower, k) ==
    IF k > Len(ps) THEN <<>>
    ELSE MatchOf(ps[k], queryLower) \o ScanMatches(ps, queryLower, k + 1)

\* the comparator of matches.sort
CompareMatches(ps, a, b, queryLower) ==
    LET aExact == startsWith(toLowerCase(Get(ps, a.person).name), queryLower)
        bExact == startsWith(toLowerCase(Get(ps, b.person).name), queryLower)
    IN IF a.matchReason = "name" /\ b.matchReason = "spouse" THEN -1
       ELSE IF a.matchReason = "spouse" /\ b.matchReason = "name" THEN 1
       ELSE IF aExact /\ ~bExact THEN -1
       ELSE IF ~aExact /\ bExact THEN 1
       ELSE localeCompare(Get(ps, a.person).name, Get(ps, b.person).name)

\* Array.prototype.sort is stable: an entry goes behind the sorted entries
\* that do not compare greater than it
InsertMatch(ps, sorted, x, queryLower) ==
    LET after == {i \in 1..Len(sorted) : CompareMatches(ps, x, sorted[i], queryLower) < 0}
        at == IF after = {} THEN Len(sorted) + 1
              ELSE CHOOSE i \in after : \A j \in after : i <= j
    IN SubSeq(sorted, 1, at - 1) \o <<x>> \o SubSeq(sorted, at, Len(sorted))

RECURSIVE SortMatches(_, _, _, _)
SortMatches(ps, matches, k, queryLower) ==
    IF k = 0 THEN <<>>
    ELSE InsertMatch(ps, SortMatches(ps, matches, k - 1, queryLower), matches[k], queryLower)

ResultLimit == 20

\* fault: the sorted matches are listed without the limit
performSearchUnlimited(ps, query) ==
    LET queryLower == toLowerCase(query)
        matches == ScanMatches(ps, queryLower, 1)
    IN SortMatches(ps, matches, Len(matches), queryLower)

\* fault: the matches of the search before stay in the list
performSearchKeeping(ps, query) ==
    LET queryLower == toLowerCase(query)
        matches == results \o ScanMatches(ps, queryLower, 1)
        sorted == SortMatches(ps, matches, Len(matches), queryLower)
    IN SubSeq(sorted, 1, IF Len(sorted) < ResultLimit THEN Len(sorted) ELSE ResultLimit)

\* performSearch(query, resultsContainer): the entries it lists (limitedMatches)
performSearch(ps, query) ==
    LET queryLower == toLowerCase(query)
        matches == ScanMatches(ps, queryLower, 1)
        sorted == SortMatches(ps, matches, Len(matches), queryLower)
    IN SubSeq(sorted, 1, IF Len(sorted) < ResultLimit THEN Len(sorted) ELSE ResultLimit)

MinQueryLength == 2

-----------------------------------------------------------------------------
(* Formatting *)

\* the characters U+2020 (dagger) and U+2013 (en dash), each one character
Dagger == "U+2020"
EnDash == "U+2013"

\* \w of a regular expression
IsWordChar(c) == IsDigit(c) \/ c = "_" \/ \E i \in 1..26 : Lowercase[i] = ToLowerChar(c)

\* the positions where /\b(\d{4})\b/g matches: four digits with a word
\* boundary on both sides
YearStarts(s) ==
    {i \in 1..(Len(s) - 3) :
        /\ \A j \in i..(i + 3) : IsDigit(s[j])
        /\ i = 1 \/ ~IsWordChar(s[i - 1])
        /\ i + 4 > Len(s) \/ ~IsWordChar(s[i + 4])}

\* fault: a death marker wins over a birth marker
formatPartnerDeathFirst(partnerBirthDeath) ==
    IF ~Truthy(partnerBirthDeath) THEN <<>>
    ELSE LET s == partnerBirthDeath.s
             years == YearStarts(s)
             first == CHOOSE i \in years : \A j \in years : i <= j
             last == CHOOSE i \in years : \A j \in years : j <= i
             hasRange == Includes(s, <<EnDash>>) \/ Includes(s, <<"-">>)
         IN IF years = {} THEN s
            ELSE IF hasRange /\ Cardinality(years) >= 2
                 THEN SubSeq(s, first, first + 3) \o <<EnDash>> \o SubSeq(s, last, last + 3)
            ELSE IF Includes(s, <<Dagger>>) THEN <<Dagger>> \o SubSeq(s, first, first + 3)
            ELSE IF Includes(s, <<"*">>) THEN <<"*">> \o SubSeq(s, first, first + 3)
            ELSE SubSeq(s, first, first + 3)

\* formatPartnerBirthDeath(partnerBirthDeath), for null or a string
formatPartnerBirthDeath(partnerBirthDeath) ==
    IF ~Truthy(partnerBirthDeath) THEN <<>>
    ELSE LET s == partnerBirthDeath.s
             years == YearStarts(s)
             first == CHOOSE i \in years : \A j \in years : i <= j
             last == CHOOSE i \in years : \A j \in years : j <= i
             hasBirth == Includes(s, <<"*">>)
             hasDeath == Includes(s, <<Dagger>>)
             hasRange == Includes(s, <<EnDash>>) \/ Includes(s, <<"-">>)
         IN IF years = {} THEN s
            ELSE IF hasRange /\ Cardinality(years) >= 2
                 THEN SubSeq(s, first, first + 3) \o <<EnDash>> \o SubSeq(s, last, last + 3)
            ELSE IF hasBirth THEN <<"*">> \o SubSeq(s, first, first + 3)
            ELSE IF hasDeath THEN <<Dagger>> \o SubSeq(s, first, first + 3)
            ELSE SubSeq(s, first, first + 3)

-----------------------------------------------------------------------------
(* Actions *)

\* fetch rejects or the response is not ok: the catch block of init()
FetchFails ==
    /\ pc = "fetch"
    /\ pc' = "failed"
    /\ errorText' = "fetch"
    /\ UNCHANGED <<urlPath, data, persons, rootPerson, currentRoot, view, history, hpos>>
    /\ UNCHANGED <<searchVars, callVars>>

\* fetch resolves with an ok response; init() awaits response.json()
FetchOk ==
    /\ pc = "fetch"
    /\ pc' = "json"
    /\ UNCHANGED <<urlPath, data, errorText, persons, rootPerson, currentRoot, view, history, hpos>>
    /\ UNCHANGED <<searchVars, callVars>>

\* response.json() rejects
JsonFails ==
    /\ pc = "json"
    /\ pc' = "failed"
    /\ errorText' = "json"
    /\ UNCHANGED <<urlPath, data, persons, rootPerson, currentRoot, view, history, hpos>>
    /\ UNCHANGED <<searchVars, callVars>>

\* response.json() resolves: buildTree, loadFromURL, render, setupControls,
\* setupSearch run to the end of init(), or buildTree or render throws into
\* its catch block; a buildTree that throws leaves the persons ingested so far
\* in this.persons
Load ==
    /\ pc = "json"
    /\ IF BuildThrows(data)
       THEN /\ persons' = FirstPass(<<>>, data, 1)
            /\ pc' = "failed"
            /\ errorText' = "build"
            /\ UNCHANGED <<rootPerson, currentRoot, view, history>>
       ELSE \E ps \in BuildTree(data) :
            LET root == SelectRoot(ps)
                fromURL == IF urlPath # NoState THEN ResolveNames(ps, urlPath, 1, NULL) ELSE NULL
                focus == IF fromURL # NULL THEN fromURL ELSE root
                shown == Render(ps, root, focus)
            IN /\ persons' = ps
               /\ rootPerson' = root
               /\ currentRoot' = focus
               /\ history' = IF fromURL # NULL THEN [history EXCEPT ![hpos] = urlPath] ELSE history
               /\ view' = shown
               /\ pc' = IF shown = "broken" THEN "failed" ELSE "done"
               /\ errorText' = IF shown = "broken" THEN "render" ELSE errorText
    /\ UNCHANGED <<urlPath, data, hpos>>
    /\ UNCHANGED <<searchVars, callVars>>

\* the popstate listener of the constructor, for a traversal to entry i
PopState(i) ==
    /\ i \in 1..Len(history)
    /\ i # hpos
    /\ hpos' = i
    /\ LET restored == IF history[i] # NoState
                       THEN ResolveNames(persons, history[i], 1, NULL) ELSE NULL
           focus == IF restored # NULL THEN restored ELSE rootPerson
       IN /\ currentRoot' = focus
          /\ view' = Render(persons, rootPerson, focus)
    /\ UNCHANGED <<urlPath, data, pc, errorText, persons, rootPerson, history>>
    /\ UNCHANGED <<searchVars, callVars>>

\* fault: updateURL replaces the current history entry instead of pushing one
navigateReplacing(person) ==
    /\ hpos < MaxHistory
    /\ currentRoot' = person
    /\ history' = [history EXCEPT ![hpos] =
                      PathNames(persons, getBreadcrumbPath(persons, rootPerson, person))]
    /\ hpos' = hpos
    /\ view' = Render(persons, rootPerson, person)
    /\ UNCHANGED <<urlPath, data, pc, errorText, persons, rootPerson>>

\* navigateToPerson(person), from a click on a card, breadcrumb item or result
navigateToPerson(person) ==
    /\ hpos < MaxHistory
    /\ currentRoot' = person
    /\ history' = Append(SubSeq(history, 1, hpos),
                         PathNames(persons, getBreadcrumbPath(persons, rootPerson, person)))
    /\ hpos' = hpos + 1
    /\ view' = Render(persons, rootPerson, person)
    /\ UNCHANGED <<urlPath, data, pc, errorText, persons, rootPerson>>

\* fault: a short value returns before the pending timer is cleared
InputEventLate(value) ==
    /\ pc = "done"
    /\ LET query == trim(value)
       IN /\ lastInput' = query
          /\ selected' = FALSE
          /\ IF Len(query) < MinQueryLength
             THEN /\ UNCHANGED searchTimeout
                  /\ resultsShown' = FALSE
             ELSE /\ searchTimeout' = query
                  /\ UNCHANGED resultsShown
    /\ UNCHANGED <<results, searched>>
    /\ UNCHANGED <<urlPath, data, pc, errorText, persons, rootPerson, currentRoot, view,
                   history, hpos>>
    /\ UNCHANGED callVars

\* the input listener of setupSearch, for an input event with this field value
InputEvent(value) ==
    /\ pc = "done"
    /\ LET query == trim(value)
       IN /\ lastInput' = query
          /\ selected' = FALSE
          /\ IF Len(query) < MinQueryLength
             THEN /\ searchTimeout' = NULL
                  /\ resultsShown' = FALSE
             ELSE /\ searchTimeout' = query
                  /\ UNCHANGED resultsShown
    /\ UNCHANGED <<results, searched>>
    /\ UNCHANGED <<urlPath, data, pc, errorText, persons, rootPerson, currentRoot, view,
                   history, hpos>>
    /\ UNCHANGED callVars

\* the debounce timer expires: performSearch(query, searchResults)
TimerFires ==
    /\ searchTimeout # NULL
    /\ LET found == performSearch(persons, searchTimeout)
       IN /\ results' = found
          /\ searched' \in
                IF searched = {} THEN {{}, {<<searchTimeout, found, "first">>}}
                ELSE {{<<s[1], s[2],
                         IF s[3] = "first" /\ s[1] # searchTimeout THEN "other"
                         ELSE IF s[3] = "other" /\ s[1] = searchTimeout THEN "again"
                         ELSE s[3]>> : s \in searched}}
    /\ resultsShown' = TRUE
    /\ searchTimeout' = NULL
    /\ UNCHANGED <<lastInput, selected>>
    /\ UNCHANGED <<urlPath, data, pc, errorText, persons, rootPerson, currentRoot, view,
                   history, hpos>>
    /\ UNCHANGED callVars

\* the click handler of the k-th listed result
ClickResult(k) ==
    /\ resultsShown
    /\ k \in 1..Len(results)
    /\ navigateToPerson(results[k].person)
    /\ resultsShown' = FALSE
    /\ selected' = TRUE
    /\ UNCHANGED <<searchTimeout, results, lastInput, searched>>
    /\ UNCHANGED callVars

\* a click outside the search field and the results, or the Escape key
HideResults ==
    /\ pc = "done"
    /\ resultsShown
    /\ resultsShown' = FALSE
    /\ UNCHANGED <<searchTimeout, results, lastInput, searched, selected>>
    /\ UNCHANGED <<urlPath, data, pc, errorText, persons, rootPerson, currentRoot, view,
                   history, hpos>>
    /\ UNCHANGED callVars

\* convertExcelDate(arg), called on its own
CallConvertExcelDate ==
    /\ fn = "none"
    /\ fn' = "convertExcelDate"
    /\ out' = convertExcelDate(arg)
    /\ UNCHANGED arg
    /\ UNCHANGED <<urlPath, data, pc, errorText, persons, rootPerson, currentRoot, view,
                   history, hpos>>
    /\ UNCHANGED searchVars

\* formatPartnerBirthDeath(arg), called on its own with null or a string
CallFormatPartnerBirthDeath ==
    /\ fn = "none"
    /\ arg.k \in {"absent", "str"}
    /\ fn' = "formatPartnerBirthDeath"
    /\ out' = formatPartnerBirthDeath(arg)
    /\ UNCHANGED arg
    /\ UNCHANGED <<urlPath, data, pc, errorText, persons, rootPerson, currentRoot, view,
                   history, hpos>>
    /\ UNCHANGED searchVars

Next ==
    \/ FetchFails
    \/ FetchOk
    \/ JsonFails
    \/ Load
    \/ \E i \in 1..MaxHistory : PopState(i)
    \/ \E person \in Clickable :
          navigateToPerson(person) /\ UNCHANGED <<searchVars, callVars>>

-----------------------------------------------------------------------------
(* Inputs *)

Al == <<"a", "l">>
Ali == <<"a", "l", "i">>
Bo == <<"b", "o">>
Zed == <<"z", "e", "d">>

Id0 == Str(<<"0">>)
Id1 == Str(<<"1">>)
Id2 == Str(<<"2">>)
Id9 == Str(<<"9">>)

Rec(person, anchorId, type, datum, eltern1, eltern2, parentId) ==
    [Person |-> person, AnchorId |-> anchorId, Ereignis |-> type, Datum |-> datum,
     Partner |-> <<>>, PartnerGeburtTod |-> <<>>,
     Eltern1 |-> eltern1, Eltern2 |-> eltern2, ParentId |-> parentId]

\* the record collections of at most MaxRecords different records of a pool
Docs(pool) ==
    UNION {{d \in [1..n -> pool] : \A i, j \in 1..n : i # j => d[i] # d[j]} :
              n \in 0..MaxRecords}

\* what the browser holds when the page loads: nothing, a deep link with a
\* path parameter, or (after a reload) an earlier entry of this document
FreshSession == [url |-> NoState, entries |-> <<NoState>>]

Sessions ==
    {FreshSession, [url |-> <<Bo, Zed>>, entries |-> <<<<Zed, Al>>, NoState>>]}

InitWith(docs, sessions) ==
    /\ data \in docs
    /\ \E s \in sessions :
        /\ urlPath = s.url
        /\ history = s.entries
        /\ hpos = Len(s.entries)
    /\ pc = "fetch"
    /\ errorText = ""
    /\ persons = <<>>
    /\ rootPerson = NULL
    /\ currentRoot = NULL
    /\ view = "blank"
    /\ searchTimeout = NULL
    /\ results = <<>>
    /\ resultsShown = FALSE
    /\ lastInput = NULL
    /\ searched = {}
    /\ selected = FALSE
    /\ fn = "none"
    /\ arg = Absent
    /\ out = <<>>

\* records for navigation: anchored persons with explicit parent ids (resolved,
\* unresolved, the reserved "0", a cycle 1 <-> 2), a repeated name, a
\* name-keyed person
NavPool ==
    {Rec(Al, Id0, "Geburt", Num(1500), <<>>, <<>>, Absent),
     Rec(Al, Id0, "Tod", Num(1570), <<>>, <<>>, Id9),
     Rec(Bo, Id1, "Geburt", Num(1530), <<>>, <<>>, Id0),
     Rec(Bo, Id1, "Geburt", Absent, <<>>, <<>>, Id2),
     Rec(Al, Id2, "Geburt", Num(1560), <<>>, <<>>, Id1),
     Rec(Zed, Absent, "Geburt", Num(1490), <<>>, <<>>, Absent)}

Init == InitWith(Docs(NavPool), Sessions)

Spec == Init /\ [][Next]_vars

\* records for ingestion and assembly: numeric and string anchor ids, a name
\* that is also an id, children of one parent with known, unknown and zero
\* birth years, the parent id "0" as a string and as a number
Seven == <<"7">>

BuildPool ==
    {Rec(Al, Id0, "Geburt", Num(1500), <<>>, <<>>, Absent),
     Rec(Al, Num(0), "Tod", Num(1570), <<>>, <<>>, Absent),
     Rec(Bo, Num(7), "Geburt", Num(1530), <<>>, <<>>, Id0),
     Rec(Ali, Str(Seven), "Tod", Str(<<"1", "5", "9", "0", "-", "0", "1">>), <<>>, <<>>, Absent),
     Rec(Seven, Absent, "Geburt", Absent, <<>>, <<>>, Num(0)),
     Rec(Zed, Id1, "Geburt", Str(<<"0", "0", "0", "0">>), <<>>, <<>>, Id0),
     Rec(Ali, Id2, "Geburt", Num(1520), <<>>, <<>>, Id0),
     Rec(<<>>, Id2, "Geburt", Num(1400), <<>>, <<>>, Absent)}

InitBuild == InitWith(Docs(BuildPool), {FreshSession})

SpecBuild == InitBuild /\ [][Next]_vars

\* record collections that can hold a null element, at any position
FailPool ==
    {Rec(Al, Id0, "Geburt", Num(1500), <<>>, <<>>, Absent),
     Rec(Bo, Id1, "Geburt", Num(1530), <<>>, <<>>, Id0),
     Rec(Zed, Absent, "Geburt", Num(1490), <<>>, <<>>, Absent),
     NullRecord}

InitFail == InitWith(Docs(FailPool), Sessions)

SpecFail == InitFail /\ [][Next]_vars

\* records for search: names in both cases, a name that holds another, partners
\* of marriages and of other events, two marriages of one person
AliCap == <<"A", "l", "i">>
Alma == <<"a", "l", "m", "a">>
Albo == <<"a", "l", "b", "o">>
BoCap == <<"B", "o">>
Kal == <<"k", "a", "l">>

RecP(person, anchorId, type, partner) ==
    [Rec(person, anchorId, type, Absent, <<>>, <<>>, Absent) EXCEPT !.Partner = partner]

FamilyDoc ==
    <<RecP(Zed, Id1, "Heirat", AliCap),
      RecP(Zed, Id1, "Heirat", Alma),
      RecP(BoCap, Id2, "Taufe", Al),
      RecP(Kal, Absent, "Geburt", <<>>),
      RecP(Albo, Id0, "Geburt", <<>>),
      RecP(Al, Id9, "Heirat", AliCap)>>

\* a family with more persons of one name stem than a result list holds
MaxPersons == 22

BigDoc ==
    [i \in 1..MaxPersons |-> RecP(Al \o NatStr(i), Str(NatStr(i - 1)), "Geburt", <<>>)]
        \o <<RecP(Zed, Absent, "Heirat", Al), RecP(Kal, Absent, "Geburt", <<>>)>>

\* the family as it grows record by record
SearchDocs == {SubSeq(FamilyDoc, 1, n) : n \in 0..Len(FamilyDoc)}

\* values of the search field at an input event
Typed ==
    {<<" ", "a", " ">>, <<" ", "a", "l", " ">>, <<"A", "L">>, Bo, <<"z", "z">>}

\* the page was opened from another page: its entry is the second of the tab
FollowedLink == [url |-> NoState, entries |-> <<NoState, NoState>>]

InitSearch == InitWith(SearchDocs, {FollowedLink})

\* a session in which the user only searches
NextSearch ==
    \/ FetchOk
    \/ Load
    \/ \E value \in Typed : InputEvent(value)
    \/ TimerFires
    \/ \E k \in 1..ResultLimit : ClickResult(k)
    \/ HideResults

SpecSearch == InitSearch /\ [][NextSearch]_vars

\* arguments of the formatting functions: numbers around zero, small day
\* numbers, years, serial day numbers, and texts
MaxNegative == 3
MaxSmallNumber == 62

DateNumbers == ((0 - MaxNegative)..MaxSmallNumber) \cup {1485, 9999, 10000, 10001, 36526, 45000}

Texts ==
    {<<>>,
     <<"0">>,
     <<"0", "0">>,
     <<"a", "b", "c">>,
     <<"1", "4", "8", "5">>,
     <<"-", "5">>,
     <<"1", "2", ".", "0", "5", ".", "1", "9", "7", "0">>,
     <<"1", "9", "7", "0", "-", "0", "5", "-", "1", "2">>,
     <<"4", "5", "0", "0", "0">>,
     <<"x">>,
     <<"*", "1", "9", "5", "4">>,
     <<Dagger, "2", "0", "1", "9">>,
     <<"1", "8", "8", "7", EnDash, "1", "9", "1", "8">>,
     <<"n", "o", "-", "y", "e", "a", "r", "-", "t", "e", "x", "t">>,
     <<"*", "2", "7", ".", "0", "5", ".", "1", "9", "7", "0">>,
     <<"1", "8", "8", "7", "-", "1", "9", "1", "8">>,
     <<"*", "1", "8", "8", "7", EnDash, Dagger, "1", "9", "1", "8">>,
     <<"a", "1", "9", "5", "4">>,
     <<"1", "2", "3", "4", "5">>,
     <<"1", "9", "5", "4">>,
     <<Dagger, "2", "0", "1", "9", " ", "*", "1", "9", "5", "4">>,
     <<"*">>,
     <<"1", "8", "8", "7", " ", "1", "9", "1", "8">>,
     <<Dagger, "1", "8", "8", "7", "-", "0", "5", "-", "0", "1">>,
     <<"*", "1", "2", ".", "0", "5", ".", "1", "8", "8", "7", " ", Dagger, "1", "9", "1", "8">>,
     <<"*", " ", "1", "8", "8", "7", EnDash, "1", "9", "1", "8">>,
     <<Dagger>>,
     <<"x", "-", "1", "9", "5", "4">>,
     <<"1", "9", "5", "4", "_">>}

FormatInputs == {Absent} \cup {Num(n) : n \in DateNumbers} \cup {Str(s) : s \in Texts}

InitFormat ==
    /\ data = <<>>
    /\ urlPath = NoState
    /\ history = <<NoState>>
    /\ hpos = 1
    /\ pc = "fetch"
    /\ errorText = ""
    /\ persons = <<>>
    /\ rootPerson = NULL
    /\ currentRoot = NULL
    /\ view = "blank"
    /\ searchTimeout = NULL
    /\ results = <<>>
    /\ resultsShown = FALSE
    /\ lastInput = NULL
    /\ searched = {}
    /\ selected = FALSE
    /\ fn = "none"
    /\ arg \in FormatInputs
    /\ out = <<>>

NextFormat ==
    \/ CallConvertExcelDate
    \/ CallFormatPartnerBirthDeath

SpecFormat == InitFormat /\ [][NextFormat]_vars

\* searches in families small and large, without the clicks on results
InitRank == InitWith({FamilyDoc, BigDoc}, {FollowedLink})

TypedStems == {<<" ", "a", " ">>, <<" ", "a", "l", " ">>, Bo}

NextRank ==
    \/ FetchOk
    \/ Load
    \/ \E value \in TypedStems : InputEvent(value)
    \/ TimerFires

SpecRank == InitRank /\ [][NextRank]_vars

\* records with parent-name hints: a hint that matches nobody, hints that match
\* a person read earlier or later, a hint held by the person's own name,
\* several records of one person with different hints and parent ids, a
\* person "0" with a parent
Xx == <<"x", "x">>

HintPool ==
    {Rec(Al, Id0, "Geburt", Num(1500), Zed, <<>>, Absent),
     Rec(Zed, Id2, "Tod", Absent, <<>>, <<>>, Absent),
     Rec(Bo, Id1, "Geburt", Num(1530), Xx, Zed, Absent),
     Rec(Bo, Id1, "Tod", Absent, Al, <<>>, Absent),
     Rec(Bo, Id1, "Heirat", Absent, <<>>, <<>>, Id9),
     Rec(Ali, Absent, "Tod", Absent, Al, <<>>, Absent),
     Rec(Zed, Id2, "Geburt", Num(1490), Bo, <<>>, Id0)}

InitHints == InitWith(Docs(HintPool), {FreshSession})

SpecHints == InitHints /\ [][Next]_vars

-----------------------------------------------------------------------------
(* Properties *)

\* buildTree has returned: init() ran to its end, or only render threw
TreeBuilt == pc = "done" \/ (pc = "failed" /\ errorText = "render")

\* p.parentId names a registered person
ResolvedParent(ps, p) == p.parentId # NULL /\ Has(ps, p.parentId)

\* a record that carries a person name and a non-empty anchor id
Anchored(record) ==
    record.Person # <<>> /\ record.AnchorId.k # "absent" /\ record.AnchorId # Str(<<>>)

\* the events of the records of the collection anchored at id, in record order
RECURSIVE EventsAnchoredAt(_, _, _)
EventsAnchoredAt(records, id, k) ==
    IF k > Len(records) THEN <<>>
    ELSE (IF Anchored(records[k]) /\ JsString(records[k].AnchorId) = id
          THEN <<EventOf(records[k])>> ELSE <<>>)
             \o EventsAnchoredAt(records, id, k + 1)

\* C1: all records that carry a person name and the same non-empty anchor id
\* (compared as strings) belong to one person: exactly one person is registered
\* under that id, and its events are the events of those records, in record order
C1_OnePersonPerAnchorId ==
    TreeBuilt =>
        \A k \in 1..Len(data) :
            Anchored(data[k]) =>
                LET id == JsString(data[k].AnchorId)
                IN /\ Cardinality({i \in 1..Len(persons) : persons[i].id = id}) = 1
                   /\ Get(persons, id).events = EventsAnchoredAt(data, id, 1)

\* C2: a person registered under "0" without a resolved parent is the root
C2_AnchorZeroIsRoot ==
    (TreeBuilt /\ Has(persons, <<"0">>)
        /\ ~ResolvedParent(persons, Get(persons, <<"0">>)))
    => rootPerson = <<"0">>

C4_ChildrenSortedByBirth ==
    TreeBuilt =>
        \A p \in 1..Len(persons) :
            \A i, j \in 1..Len(persons[p].children) :
                i < j =>
                    LET a == getBirthDate(Get(persons, persons[p].children[i]))
                        b == getBirthDate(Get(persons, persons[p].children[j]))
                    IN /\ (a.known /\ b.known) => a.year <= b.year
                       /\ ~(~a.known /\ b.known)

\* the persons on the parent chain of id: id and everybody reached from it
\* through parentId links that name a registered person
RECURSIVE ParentChain(_, _)
ParentChain(ps, chain) ==
    LET more == chain \cup {Get(ps, id).parentId :
                               id \in {c \in chain : ResolvedParent(ps, Get(ps, c))}}
    IN IF more = chain THEN chain ELSE ParentChain(ps, more)

NoRepeats(seq) == \A i, j \in 1..Len(seq) : i # j => seq[i] # seq[j]

\* C5: for every person the upward walk of getPathToRoot ends, visits no
\* identifier twice and takes at most as many steps as there are distinct
\* persons on the parent chain, parent cycles included
C5_WalkBounded ==
    TreeBuilt =>
        \A p \in Ids(persons) :
            LET walk == Climb(persons, p, <<>>, WalkFuel(persons))
            IN /\ walk.done
               /\ NoRepeats(walk.path)
               /\ Len(walk.path) <= Cardinality(ParentChain(persons, {p}))

\* a person on a parent cycle of two persons
C5_Witness ==
    /\ TreeBuilt
    /\ \E p \in Ids(persons) :
          /\ ResolvedParent(persons, Get(persons, p))
          /\ Get(persons, p).parentId # p
          /\ Get(persons, Get(persons, p).parentId).parentId = p
          /\ Len(Climb(persons, p, <<>>, WalkFuel(persons)).path) = 2

\* C6: on a non-empty registry every path of getPathToRoot and of
\* getBreadcrumbPath starts at the root and ends at the person asked for
C6_PathAnchored ==
    (TreeBuilt /\ Len(persons) > 0) =>
        \A p \in Ids(persons) :
            LET path == getPathToRoot(persons, rootPerson, p)
                crumbs == getBreadcrumbPath(persons, rootPerson, p)
            IN /\ path[1] = rootPerson /\ path[Len(path)] = p
               /\ crumbs[1] = rootPerson /\ crumbs[Len(crumbs)] = p

\* a person whose parent chain does not reach the root: its parent id is
\* unresolved, or the chain runs into a cycle
C6_Witness ==
    /\ TreeBuilt
    /\ \E p \in Ids(persons) :
          /\ rootPerson \notin ParentChain(persons, {p})
          /\ Get(persons, p).parentId # NULL
          /\ Len(getPathToRoot(persons, rootPerson, p)) >= 2

\* C7: navigateToPerson(p) makes p the focus and pushes one history entry, the
\* names of the path from the root to p; no step but the assembly changes the
\* registry or the root
C7_NavigateEffect ==
    [][/\ \A p \in Ids(persons) :
            navigateToPerson(p) =>
                /\ currentRoot' = p
                /\ Len(history') = hpos + 1
                /\ hpos' = hpos + 1
                /\ SubSeq(history', 1, hpos) = SubSeq(history, 1, hpos)
                /\ history'[hpos'] = PathNames(persons, getPathToRoot(persons, rootPerson, p))
                /\ rootPerson' = rootPerson
                /\ persons' = persons
       /\ TreeBuilt => (rootPerson' = rootPerson /\ persons' = persons
                            /\ rootPerson = SelectRoot(persons))]_vars

\* after two navigations: the focus is not the root and the current entry
\* holds the names of its path
C7_Witness ==
    /\ pc = "done"
    /\ Len(history) >= 3
    /\ hpos = Len(history)
    /\ currentRoot \notin {NULL, rootPerson}
    /\ history[hpos] = PathNames(persons, getPathToRoot(persons, rootPerson, currentRoot))
    /\ Len(history[hpos]) >= 2

UniqueNames(ps) == \A i, j \in 1..Len(ps) : i # j => ps[i].name # ps[j].name

\* C8: with unique names, a traversal to the entry that navigateToPerson(p)
\* pushed makes p the focus again
C8_RoundTrip ==
    [][\A i \in 1..Len(history) : \A p \in Ids(persons) :
          (/\ PopState(i)
           /\ TreeBuilt
           /\ UniqueNames(persons)
           /\ history[i] = PathNames(persons, getBreadcrumbPath(persons, rootPerson, p)))
          => currentRoot' = p]_vars

\* back on the entry of an earlier navigation to a person below the root,
\* with a later entry still in the history
C8_Witness ==
    /\ pc = "done"
    /\ UniqueNames(persons)
    /\ Len(history) >= 3
    /\ hpos = 2
    /\ currentRoot \notin {NULL, rootPerson}
    /\ history[2] = PathNames(persons, getBreadcrumbPath(persons, rootPerson, currentRoot))
    /\ history[3] # history[2]

\* position of the first name of the list that no person carries, 0 if none
FirstUnresolved(ps, pathNames) ==
    FindIndex({fi \in 1..Len(pathNames) : \A i \in 1..Len(ps) : ps[i].name # pathNames[fi]})

\* the first person of the registry that carries the name
PersonNamed(ps, n) == ps[FindIndex({fi \in 1..Len(ps) : ps[fi].name = n})].id

\* C9 as claimed: restoring a name list with a name that resolves to nobody
\* makes the root the focus
C9_UnresolvedMeansRoot ==
    [][/\ \A i \in 1..Len(history) :
            (PopState(i) /\ history[i] # NoState
                /\ FirstUnresolved(persons, history[i]) # 0)
            => currentRoot' = rootPerson
       /\ (Load /\ urlPath # NoState /\ FirstUnresolved(persons', urlPath) # 0)
            => currentRoot' = rootPerson']_vars

\* C9 as amended: the root is the focus when the first name of the list
\* resolves to nobody; otherwise the focus is the person of the last name
\* before the first unresolved one
C9_UnresolvedMeansLastResolved ==
    [][/\ \A i \in 1..Len(history) :
            (PopState(i) /\ history[i] # NoState
                /\ FirstUnresolved(persons, history[i]) # 0)
            => LET k == FirstUnresolved(persons, history[i])
               IN currentRoot' = IF k = 1 THEN rootPerson
                                 ELSE PersonNamed(persons, history[i][k - 1])
       /\ (Load /\ urlPath # NoState /\ FirstUnresolved(persons', urlPath) # 0)
            => LET k == FirstUnresolved(persons', urlPath)
               IN currentRoot' = IF k = 1 THEN rootPerson'
                                 ELSE PersonNamed(persons', urlPath[k - 1])]_vars

\* the current entry holds a list whose second name resolves to nobody, and
\* the focus is the person of its first name, not the root
C9_Witness ==
    /\ TreeBuilt
    /\ history[hpos] # NoState
    /\ FirstUnresolved(persons, history[hpos]) = 2
    /\ currentRoot = PersonNamed(persons, history[hpos][1])
    /\ currentRoot # rootPerson

\* C10: nothing is rendered by a navigation, a history traversal or a search
\* before buildTree has returned
C10_NothingBeforeBuild == view # "blank" => TreeBuilt

\* loading failed before buildTree returned: fetch, parse or buildTree threw
LoadFailed == pc = "failed" /\ errorText \in {"fetch", "json", "build"}

\* C11: once loading has failed (fetch, parse, or buildTree throwing after it
\* ingested some records) no partial graph is published: no person of the
\* registry is root or focus, also after later history-restoration events
C11_NoPartialGraphPublished ==
    LoadFailed => rootPerson = NULL /\ currentRoot = NULL

\* C12: every traversal of the assembled graph is cycle-safe: for every graph
\* buildTree produces, also from parent ids that form a cycle,
\* countDescendants(person) terminates for every person
C12_CountDescendantsTerminates ==
    TreeBuilt =>
        \A i \in 1..Len(persons) : ~countDescendantsThrows(persons, persons[i].id)

\* the record carries the reserved parent id, as the string or as the number
ReservedParent(record) == record.ParentId \in {Str(<<"0">>), Num(0)}

\* C13: a record that carries the reserved parent id 0, in any representation
\* that normalizes to "0", gives its person the parentId "0": the person the
\* record's event went to has parentId "0" right after the record is ingested
C13_ReservedParentIdKept ==
    TreeBuilt =>
        \A k \in 1..Len(data) :
            (data[k].Person # <<>> /\ ReservedParent(data[k])) =>
                LET before == FirstPass(<<>>, SubSeq(data, 1, k - 1), 1)
                    after == IngestRecord(before, data[k])
                IN \A i \in 1..Len(after) :
                       (i > Len(before) \/ after[i] # before[i]) =>
                           after[i].parentId = <<"0">>

\* the rank the ordering of results gives an entry: its tier, whether the
\* person's name starts with the query, and the name, all case-insensitively
NameTier(entry) == IF entry.matchReason = "name" THEN 0 ELSE 1

PrefixClass(ps, entry, query) ==
    IF startsWith(toLowerCase(Get(ps, entry.person).name), toLowerCase(query)) THEN 0 ELSE 1

NameLeq(ps, a, b) ==
    ComparePrimary(toLowerCase(Get(ps, a.person).name),
                   toLowerCase(Get(ps, b.person).name), 1) <= 0

\* entry a may stand before entry b
RankedBefore(ps, a, b, query) ==
    \/ NameTier(a) < NameTier(b)
    \/ /\ NameTier(a) = NameTier(b)
       /\ \/ PrefixClass(ps, a, query) < PrefixClass(ps, b, query)
          \/ /\ PrefixClass(ps, a, query) = PrefixClass(ps, b, query)
             /\ NameLeq(ps, a, b)

\* C14: the list performSearch shows is the first 20 entries (all when there
\* are fewer) of the matches ordered by tier (name before spouse), then name
\* prefix before no prefix, then name; it never has more than 20 entries
C14_RankedAndLimited ==
    [][TimerFires =>
         LET query == searchTimeout
             all == ScanMatches(persons, toLowerCase(query), 1)
             listed == results'
         IN /\ Len(listed) <= 20
            /\ Len(listed) = IF Len(all) < 20 THEN Len(all) ELSE 20
            /\ Range(listed) \subseteq Range(all)
            /\ \A i, j \in 1..Len(listed) :
                   i < j => listed[i] # listed[j]
                            /\ RankedBefore(persons, listed[i], listed[j], query)
            /\ \A m \in Range(all) \ Range(listed) :
                   \A i \in 1..Len(listed) : RankedBefore(persons, listed[i], m, query)]_vars

\* a search with more than 20 matches has listed 20 of them, in both tiers' order
C14_Witness ==
    /\ resultsShown
    /\ Len(results) = ResultLimit
    /\ Len(ScanMatches(persons, toLowerCase(Al), 1)) > ResultLimit
    /\ results = performSearch(persons, Al)

\* the match rule in the words of the claim
NameHit(person, query) == Includes(toLowerCase(person.name), toLowerCase(query))

SpouseHits(person, query) ==
    {k \in 1..Len(person.events) :
        /\ person.events[k].type = "Heirat"
        /\ Includes(toLowerCase(person.events[k].partner), toLowerCase(query))}

\* C15: a person is a match iff its name contains the query, or else the
\* partner of one of its marriage events does (case-insensitively); a person
\* has at most one entry, an entry is a name match iff the name matches, and
\* the spouse of a spouse match is a partner of a marriage that contains the query
C15_MatchRule ==
    [][TimerFires =>
         LET query == searchTimeout
             listed == results'
         IN \A p \in 1..Len(persons) :
                LET person == persons[p]
                    entries == {i \in 1..Len(listed) : listed[i].person = person.id}
                IN /\ Cardinality(entries) =
                          IF NameHit(person, query) \/ SpouseHits(person, query) # {}
                          THEN 1 ELSE 0
                   /\ \A i \in entries :
                          /\ listed[i].matchReason = "name" <=> NameHit(person, query)
                          /\ listed[i].matchReason \in {"name", "spouse"}
                          /\ listed[i].matchReason = "spouse" =>
                                 \E k \in SpouseHits(person, query) :
                                     person.events[k].partner = listed[i].matchedSpouse]_vars

\* the list shown holds a spouse match of a person with two qualifying
\* marriages, a name match of a person whose spouse qualifies as well, and
\* leaves out a person whose only qualifying partner is of another event
C15_Witness ==
    /\ resultsShown
    /\ \E i \in 1..Len(results) :
           /\ results[i].matchReason = "spouse"
           /\ Cardinality(SpouseHits(Get(persons, results[i].person), Al)) >= 2
    /\ \E i \in 1..Len(results) :
           /\ results[i].matchReason = "name"
           /\ SpouseHits(Get(persons, results[i].person), Al) # {}
    /\ \E p \in 1..Len(persons) :
           /\ \A i \in 1..Len(results) : results[i].person # persons[p].id
           /\ \E k \in 1..Len(persons[p].events) :
                  Includes(toLowerCase(persons[p].events[k].partner), Al)

C17_OnlyLatestInputSearched ==
    [][/\ TimerFires =>
           /\ searchTimeout = lastInput
           /\ Len(lastInput) >= 2
           /\ results' = performSearch(persons, lastInput)
       /\ \A value \in Typed :
           InputEvent(value) =>
               /\ searchTimeout' \in {NULL, trim(value)}
               /\ results' = results
               /\ Len(trim(value)) < 2 => searchTimeout' = NULL /\ ~resultsShown']_vars

\* the list of an older query is still shown while the search for the latest
\* input is pending
C17_Witness ==
    /\ resultsShown
    /\ searchTimeout # NULL
    /\ searchTimeout = lastInput
    /\ \E s \in searched : s[1] # lastInput /\ results = s[2]

NonNumericText(v) == v.k = "str" /\ v.s # <<>> /\ ParseFloat(v).nan

\* C19: convertExcelDate returns '' for every empty, zero or negative input,
\* and passes non-numeric text through unchanged
C19_NonPositiveIsEmpty ==
    fn = "convertExcelDate" =>
        /\ (arg = Absent \/ arg = Str(<<>>)) => out = <<>>
        /\ (arg.k = "num" /\ arg.n <= 0) => out = <<>>
        /\ NonNumericText(arg) => out = arg.s

\* the 4-digit years of a text, in the order they stand in it
FirstYear(s) ==
    LET i == CHOOSE i \in YearStarts(s) : \A j \in YearStarts(s) : i <= j
    IN SubSeq(s, i, i + 3)

LastYear(s) ==
    LET i == CHOOSE i \in YearStarts(s) : \A j \in YearStarts(s) : j <= i
    IN SubSeq(s, i, i + 3)

HasMarker(s, marks) == \E i \in 1..Len(s) : s[i] \in marks

\* C20: formatPartnerBirthDeath returns a text without a 4-digit year
\* unchanged; otherwise 'first-last' (with an en dash) when the text has a
\* range marker and at least two years, else '*first' when it has a birth
\* marker, else the dagger and the first year when it has a death marker, else
\* the first year; range goes before birth and birth before death
C20_PartnerSpan ==
    (fn = "formatPartnerBirthDeath" /\ arg.k = "str" /\ arg.s # <<>>) =>
        LET s == arg.s
            range == HasMarker(s, {EnDash, "-"}) /\ Cardinality(YearStarts(s)) >= 2
            birth == HasMarker(s, {"*"})
            death == HasMarker(s, {Dagger})
        IN /\ YearStarts(s) = {} => out = s
           /\ (YearStarts(s) # {} /\ range) =>
                  out = FirstYear(s) \o <<EnDash>> \o LastYear(s)
           /\ (YearStarts(s) # {} /\ ~range /\ birth) => out = <<"*">> \o FirstYear(s)
           /\ (YearStarts(s) # {} /\ ~range /\ ~birth /\ death) =>
                  out = <<Dagger>> \o FirstYear(s)
           /\ (YearStarts(s) # {} /\ ~range /\ ~birth /\ ~death) => out = FirstYear(s)
           /\ s \in {<<"*", "1", "9", "5", "4">>, <<Dagger, "2", "0", "1", "9">>, <<"1", "8", "8", "7", EnDash, "1", "9", "1", "8">>,
                     <<"n", "o", "-", "y", "e", "a", "r", "-", "t", "e", "x", "t">>} => out = s

\* a text with a birth and a death marker and one year, and no range
C20_Witness ==
    /\ fn = "formatPartnerBirthDeath"
    /\ arg = Str(<<Dagger, "2", "0", "1", "9", " ", "*", "1", "9", "5", "4">>)
    /\ out = <<"*", "2", "0", "1", "9">>

\* the persons without a resolved parent, in registry order
RootCandidates(ps) == SelectSeq(ps, LAMBDA p : ~ResolvedParent(ps, p))

\* C21: when no parentless person is registered under "0", the root is, among
\* the persons without a resolved parent, one with the earliest known birth
\* year; it has a known birth year whenever a candidate has one; and when no
\* candidate has one, it is the first candidate in registry order
C21_EarliestBornCandidateIsRoot ==
    LET candidates == RootCandidates(persons)
        born == {i \in 1..Len(candidates) : getBirthDate(candidates[i]).known}
    IN (/\ TreeBuilt
        /\ ~(Has(persons, <<"0">>) /\ ~ResolvedParent(persons, Get(persons, <<"0">>)))
        /\ Len(candidates) > 0)
       => IF born = {} THEN rootPerson = candidates[1].id
          ELSE \E i \in born :
                  /\ rootPerson = candidates[i].id
                  /\ \A j \in born : getBirthDate(candidates[i]).year
                                        <= getBirthDate(candidates[j]).year

\* the person's records carry a parent reference: an explicit parent id or a
\* parent-name hint
HasParentReference(person) ==
    \/ person.parentId # NULL
    \/ \E e \in 1..Len(person.events) :
          person.events[e].parent1 # <<>> \/ person.events[e].parent2 # <<>>

\* C22: a person whose parent reference matches no registered person (an
\* explicit parent id that names nobody, hints that match nobody) is parentless
\* after buildTree and is among the candidates of the root selection
C22_UnresolvedIsRootCandidate ==
    TreeBuilt =>
        LET personsWithNoParent == SelectSeq(persons, LAMBDA p : p.parentId = NULL)
        IN \A i \in 1..Len(persons) :
              (HasParentReference(persons[i]) /\ ~ResolvedParent(persons, persons[i]))
              => /\ persons[i].parentId = NULL
                 /\ \E k \in 1..Len(personsWithNoParent) :
                       personsWithNoParent[k].id = persons[i].id

\* the parent-name hints on the person's own events
HintsOf(person) ==
    {h \in UNION {{person.events[e].parent1, person.events[e].parent2} :
                     e \in 1..Len(person.events)} : h # <<>>}

\* C23: a person without a resolved parentId after the per-record pass, with a
\* parent-name hint on any of its own events that matches a registered person,
\* ends with the first person matching the hint as its parent and is in that
\* person's children list, whatever the order of the records
C23_HintedPersonAttached ==
    TreeBuilt =>
        LET ingested == FirstPass(<<>>, data, 1)
        IN \A i \in 1..Len(persons) :
              LET matched == {h \in HintsOf(persons[i]) : FindByHint(persons, h) # 0}
              IN (~ResolvedParent(ingested, ingested[i]) /\ matched # {})
                 => \E h \in matched :
                       LET parent == persons[FindByHint(persons, h)]
                       IN /\ persons[i].parentId = parent.id
                          /\ persons[i].id \in Range(parent.children)

\* the places <<q, k>> where id stands in a children list: entry k of person q
ChildPlaces(ps, id) ==
    UNION {{<<q, k>> : k \in {c \in 1..Len(ps[q].children) : ps[q].children[c] = id}} :
              q \in 1..Len(ps)}

\* C24: children are never shared: every person stands in the children list of
\* at most one person, and at most once in it
C24_ChildrenNotShared ==
    TreeBuilt =>
        \A i \in 1..Len(persons) : Cardinality(ChildPlaces(persons, persons[i].id)) <= 1

\* a person with two records that carry three different hints, in the
\* children list of the person one of the hints matches
C24_Witness ==
    /\ TreeBuilt
    /\ \E i \in 1..Len(persons) :
          /\ Len(persons[i].events) >= 2
          /\ Cardinality(HintsOf(persons[i])) >= 3
          /\ Cardinality(ChildPlaces(persons, persons[i].id)) = 1
          /\ persons[i].parentId # persons[i].id

\* C25: parent links and children lists agree: p is in q's children list
\* exactly if p's parentId is q's identifier
C25_LinksAgree ==
    TreeBuilt =>
        \A p, q \in 1..Len(persons) :
            (persons[p].id \in Range(persons[q].children))
                <=> (persons[p].parentId = persons[q].id)

\* a person without a resolved parentId after the per-record pass that the
\* second pass attached to another person by a name hint
C25_Witness ==
    /\ TreeBuilt
    /\ LET ingested == FirstPass(<<>>, data, 1)
       IN \E p, q \in 1..Len(persons) :
             /\ p # q
             /\ ~ResolvedParent(ingested, ingested[p])
             /\ persons[p].parentId = persons[q].id
             /\ persons[p].id \in Range(persons[q].children)

\* no record carries an explicit parent id that names the record's own person
NoExplicitSelfParent(records) ==
    \A k \in 1..Len(records) :
        (records[k].Person # <<>> /\ Truthy(records[k].ParentId)) =>
            /\ JsString(records[k].ParentId) # records[k].Person
            /\ Truthy(records[k].AnchorId)
                  => JsString(records[k].ParentId) # JsString(records[k].AnchorId)

\* C26: without explicit self-referencing parent ids in the records, no person
\* is its own parent: no parentId equals the person's own identifier and no
\* person is in its own children list, whatever hints the records carry
C26_NobodyOwnParent ==
    (TreeBuilt /\ NoExplicitSelfParent(data)) =>
        \A i \in 1..Len(persons) :
            /\ persons[i].parentId # persons[i].id
            /\ persons[i].id \notin Range(persons[i].children)

\* the person id and its ancestors, child first: the parentId links that name
\* a registered person are followed up to the first repeated identifier
RECURSIVE Lineage(_, _, _)
Lineage(ps, id, line) ==
    IF id \in Range(line) THEN line
    ELSE IF ResolvedParent(ps, Get(ps, id))
         THEN Lineage(ps, Get(ps, id).parentId, Append(line, id))
         ELSE Append(line, id)

\* C27: the path of getPathToRoot(p) holds every ancestor of p reachable over
\* resolved parentId links (up to the first repeated identifier), each directly
\* before its child: the path ends with the lineage of p, eldest first.  So
\* the direct parent of p is on the path, also when it is the person "0"
C27_PathHoldsAncestors ==
    (TreeBuilt /\ Len(persons) > 0) =>
        \A p \in Ids(persons) :
            LET path == getPathToRoot(persons, rootPerson, p)
                line == Reverse(Lineage(persons, p, <<>>))
            IN /\ Len(path) >= Len(line)
               /\ SubSeq(path, Len(path) - Len(line) + 1, Len(path)) = line

\* C28: no person stands more than once in a path of getPathToRoot or of
\* getBreadcrumbPath, for every graph buildTree produces, also when the root
\* lies on a parent cycle
C28_PathsWithoutRepeats ==
    (TreeBuilt /\ Len(persons) > 0) =>
        \A p \in Ids(persons) :
            /\ NoRepeats(getPathToRoot(persons, rootPerson, p))
            /\ NoRepeats(getBreadcrumbPath(persons, rootPerson, p))

\* the registry right after record k of the collection is ingested
IngestedUpTo(records, k) == FirstPass(<<>>, SubSeq(records, 1, k), 1)

\* the id of the person the event of record k went to (the record names a person)
OwnerOf(records, k) ==
    LET before == IngestedUpTo(records, k - 1)
        after == IngestedUpTo(records, k)
    IN after[CHOOSE i \in 1..Len(after) : i > Len(before) \/ after[i] # before[i]].id

\* C29: explicit parent ids take precedence over name hints for the whole
\* person: once a record has given a person an explicit parent id, a later
\* record of the same person without a parent id leaves the person's parentId
\* as it was, whatever hints it carries
C29_ExplicitParentIdKept ==
    TreeBuilt =>
        \A j, k \in 1..Len(data) :
            (/\ j < k
             /\ data[j].Person # <<>> /\ data[k].Person # <<>>
             /\ Truthy(data[j].ParentId) /\ ~Truthy(data[k].ParentId)
             /\ OwnerOf(data, j) = OwnerOf(data, k))
            => Get(IngestedUpTo(data, k), OwnerOf(data, k)).parentId
                  = Get(IngestedUpTo(data, k - 1), OwnerOf(data, k)).parentId

\* C30: after a click on a result the result list is hidden and stays hidden
\* until the next input event, also when a debounce timer was pending at the
\* click
C30_HiddenAfterSelection == selected => ~resultsShown

====
